---- MODULE Spec2Model ----
(***************************************************************************)
(* State-machine model of the video playback components:                   *)
(*   - VideoPlaybackModal (src/src/components/VideoPlaybackModal.tsx)      *)
(*   - MuxPlayer (the component listed in src/MOBILE_OPTIMIZATION_GUIDE.md,*)
(*     lines 254-534)                                                      *)
(* React is modelled by what it does to the components: a render takes a   *)
(* snapshot of state and props, effects run in a later step and subscribe  *)
(* listeners that close over the snapshot, event handlers run atomically.  *)
(***************************************************************************)
EXTENDS Integers, Sequences, FiniteSets, TLC

VARIABLES
  \* VideoPlaybackModal: its props and what its render returned
  isOpen, content, view,
  \* MuxPlayer instance: lifecycle, useState values, last render, listeners
  mounted, effectsMounted,
  isPlaying, hasTrackedView, isMobile, networkConnection, isFullscreen,
  rendered, listeners,
  \* MuxPlayer props set by the host
  onViewTracked, onDurationChange,
  \* double-tap detector: the ref of the live instance, timers of dead ones
  doubleClickTimeoutRef, orphanTimers,
  \* document fullscreen state and the promises of the Fullscreen API
  fullscreenElement, pendingRequests, pendingExits, fullscreenChangeQueued,
  \* execution environment
  fullscreenSupported, connectionApi, connectionValue,
  userAgentMobile, narrowViewport, playerPaused, hostTracksViews,
  \* history of what was observed (no code reads these)
  tapCount, doubleTaps, timerExpiries, requestAttempts, exitAttempts,
  warnings, unhandledRejections, playCount, viewTrackedCalls,
  playedWhileSupplied,
  \* playback-identifier extraction taken alone
  contentUrl, playbackId,
  \* VideoPlaybackModal: the duration state and what its last render shows
  duration, shownDuration,
  \* the duration property of the player element
  playerDuration,
  \* history of the duration events and notifications (no code reads these)
  durationEvents, durationCalls, lastNotified, durationItem

modalVars   == <<isOpen, content, view>>
stateVars   == <<isPlaying, hasTrackedView, isMobile, networkConnection, isFullscreen>>
playerVars  == <<mounted, effectsMounted, stateVars, rendered, listeners>>
propVars    == <<onViewTracked, onDurationChange>>
gestureVars == <<doubleClickTimeoutRef, orphanTimers>>
fsVars      == <<fullscreenElement, pendingRequests, pendingExits, fullscreenChangeQueued>>
envVars     == <<fullscreenSupported, connectionApi, connectionValue,
                 userAgentMobile, narrowViewport, playerPaused, hostTracksViews>>
gestureHist == <<tapCount, doubleTaps, timerExpiries, requestAttempts, exitAttempts,
                 warnings, unhandledRejections>>
viewHist    == <<playCount, viewTrackedCalls, playedWhileSupplied>>
urlVars     == <<contentUrl, playbackId>>
durationHist == <<durationEvents, durationCalls, lastNotified, durationItem>>
durationVars == <<duration, shownDuration, playerDuration, durationHist>>

vars == <<modalVars, playerVars, propVars, gestureVars, fsVars, envVars,
          gestureHist, viewHist, urlVars,
          durationVars>>

----------------------------------------------------------------------------
\* Bounds of the model

\* taps (container gesture events) delivered in one run
MaxTaps == 4
\* double-tap timers left pending by unmounted instances at one time
MaxOrphans == 1
\* play events emitted in one run
MaxPlays == 3
\* durationchange and loadedmetadata events emitted in one run
MaxDurationEvents == 3
\* distinct onViewTracked callbacks a host passes
MaxCallbacks == 2
\* length of the content_url strings of the extraction check
MaxUrlLen == 8

----------------------------------------------------------------------------
\* Strings are sequences of characters over a small alphabet: "s" and "m"
\* are letters, "." is a character that is neither letter nor digit, "/" is
\* a slash, and "S" is the scheme delimiter :// (a colon occurs nowhere
\* else).  The host name stream.mux.com is written s.m: letters, a dot,
\* letters, and no overlap with itself.

HostName == <<"s", ".", "m">>
SchemeDelimiter == <<"S">>
Slash == "/"
AlphaNum == {"s", "m"}
UrlTokens == {"s", "m", ".", "/", "S"}

Null == "null"
Empty == << >>
\* the value of playbackId before the modal has computed it
NotExtracted == <<"?">>

\* String.prototype.includes
Includes(s, needle) ==
  \E i \in 1..Len(s) :
    /\ i + Len(needle) - 1 <= Len(s)
    /\ SubSeq(s, i, i + Len(needle) - 1) = needle

\* the positions where /stream\.mux\.com\/([a-zA-Z0-9]+)/ can match
MatchStarts(s) ==
  {i \in 1..Len(s) : /\ i + Len(HostName) + 1 <= Len(s)
                     /\ SubSeq(s, i, i + Len(HostName) - 1) = HostName
                     /\ s[i + Len(HostName)] = Slash
                     /\ s[i + Len(HostName) + 1] \in AlphaNum}

\* the last index of the run of letters and digits that starts at from
RECURSIVE RunEnd(_, _)
RunEnd(s, from) ==
  IF from + 1 <= Len(s) /\ s[from + 1] \in AlphaNum
  THEN RunEnd(s, from + 1)
  ELSE from

\* capture group 1 of the leftmost match, greedy
MatchGroup(s) ==
  LET i == CHOOSE k \in MatchStarts(s) : \A j \in MatchStarts(s) : k <= j
      g == i + Len(HostName) + 1
  IN  SubSeq(s, g, RunEnd(s, g))

getPlaybackIdWholeTail(url) ==
  IF url = Empty THEN Empty
  ELSE IF Includes(url, HostName)
       THEN IF MatchStarts(url) # {}
            THEN LET i == CHOOSE k \in MatchStarts(url) : \A j \in MatchStarts(url) : k <= j
                 IN  SubSeq(url, i + Len(HostName) + 1, Len(url))
            ELSE Empty
       ELSE IF ~Includes(url, SchemeDelimiter) THEN url ELSE Empty

getPlaybackId(url) ==
  IF url = Empty THEN Empty
  ELSE IF Includes(url, HostName)
       THEN IF MatchStarts(url) # {} THEN MatchGroup(url) ELSE Empty
       ELSE IF ~Includes(url, SchemeDelimiter) THEN url ELSE Empty

----------------------------------------------------------------------------
\* Content items the host can hand to the modal, by their content_url

Contents == {"hls", "bare", "foreign", "noid", "blank"}

ContentUrl(c) ==
  CASE c = "hls"     -> <<"m", "S", "s", ".", "m", "/", "m", "s", ".", "m">>
    [] c = "bare"    -> <<"s", "m", "s">>
    [] c = "foreign" -> <<"m", "S", "m", ".", "m", "/", "s">>
    [] c = "noid"    -> <<"m", "S", "s", ".", "m", "/">>
    [] c = "blank"   -> Empty

\* what VideoPlaybackModal's render returns
ModalRenderAlwaysPlayer(open, c) ==
  IF ~open \/ c = Null THEN "nothing" ELSE "player"

ModalRender(open, c) ==
  IF ~open \/ c = Null THEN "nothing"
  ELSE IF getPlaybackId(ContentUrl(c)) # Empty THEN "player" ELSE "cannotPlay"

----------------------------------------------------------------------------
\* Durations.  A duration is a number of seconds, NaN, or (in the modal's
\* state) null; the numbers that matter are zero and the lengths of the media.

NaN == "NaN"
Zero == "0"

\* the length of the media of a playable content item
MediaDuration(c) ==
  CASE c = "hls"  -> "10s"
    [] c = "bare" -> "20s"
    [] OTHER      -> NaN

\* the values player.duration takes while the player plays item c
PlayerDurations(c) == {NaN, Zero, MediaDuration(c)}

\* JavaScript truthiness of a duration
Truthy(d) == d \notin {NaN, Zero, Null}

\* {duration && ...formatDuration(duration)...}: the duration on display
Shown(d) == IF Truthy(d) THEN d ELSE Null

----------------------------------------------------------------------------
\* Playback configuration

NetworkTiers == {"4g", "3g", "2g", "slow-2g", "unknown"}
EffectiveTypes == {"4g", "3g", "2g", "slow-2g", "undefined"}
MozConnectionTypes == {"wifi", "cellular", "undefined"}

getOptimalMaxResolutionSwapped(network, mobile) ==
  CASE network \in {"slow-2g", "2g"} -> "480p"
    [] network = "3g" -> "1080p"
    [] network = "4g" -> "720p"
    [] OTHER -> IF mobile THEN "720p" ELSE "1080p"

getOptimalMaxResolution(network, mobile) ==
  CASE network \in {"slow-2g", "2g"} -> "480p"
    [] network = "3g" -> "720p"
    [] network = "4g" -> "1080p"
    [] OTHER -> IF mobile THEN "720p" ELSE "1080p"

getPreloadStrategyByNetwork(mobile, network) ==
  IF mobile /\ network \in {"slow-2g", "2g"} THEN "metadata"
  ELSE IF mobile THEN "auto"
  ELSE "auto"

getPreloadStrategy(mobile, network) ==
  IF mobile /\ network \in {"slow-2g", "2g"} THEN "metadata"
  ELSE IF mobile THEN "metadata"
  ELSE "auto"

\* checkMobile: the user agent test or a viewport of at most 768 pixels
checkMobile(uaMobile, narrow) == uaMobile \/ narrow

\* detectNetwork: the value it stores, given the one stored before
detectNetwork(api, value, current) ==
  CASE api = "connection"    -> IF value = "undefined" THEN "unknown" ELSE value
    [] api = "mozConnection" -> IF value = "undefined" THEN "unknown" ELSE value
    [] OTHER -> current

ConnectionValues(api) ==
  CASE api = "connection"    -> EffectiveTypes
    [] api = "mozConnection" -> MozConnectionTypes
    [] OTHER -> {"undefined"}

----------------------------------------------------------------------------
\* React: render snapshot and listener closures of MuxPlayer

\* what a render of MuxPlayer reads
Snapshot(tracked, viewCb, durationCb, mobile, network) ==
  [hasTrackedView    |-> tracked,
   onViewTracked     |-> viewCb,
   onDurationChange  |-> durationCb,
   isMobile          |-> mobile,
   networkConnection |-> network,
   preload           |-> getPreloadStrategy(mobile, network),
   maxResolution     |-> getOptimalMaxResolution(network, mobile)]

NoCallback == 0
InitialSnapshot == Snapshot(FALSE, NoCallback, 1, FALSE, "unknown")

\* the dependency list of the player-listener effect
Deps(r) == <<r.onDurationChange, r.onViewTracked, r.hasTrackedView>>

NoListeners ==
  [subscribed |-> FALSE, hasTrackedView |-> FALSE,
   onViewTracked |-> NoCallback, onDurationChange |-> NoCallback]

\* the listeners the effect adds: closures over the render they were made in
Subscribe(r) ==
  [subscribed |-> TRUE, hasTrackedView |-> r.hasTrackedView,
   onViewTracked |-> r.onViewTracked, onDurationChange |-> r.onDurationChange]

EffectPending ==
  mounted /\ (~effectsMounted \/ Deps(listeners) # Deps(rendered))

----------------------------------------------------------------------------
\* Lifecycle of the MuxPlayer instance

\* a fresh instance: useState initial values, the props of the host, the
\* first render; no listeners yet
MountPlayer ==
  /\ mounted' = TRUE
  /\ effectsMounted' = FALSE
  /\ isPlaying' = FALSE
  /\ hasTrackedView' = FALSE
  /\ isMobile' = FALSE
  /\ networkConnection' = "unknown"
  /\ isFullscreen' = FALSE
  /\ onViewTracked' = (IF hostTracksViews THEN 1 ELSE NoCallback)
  /\ onDurationChange' = 1
  /\ rendered' = Snapshot(FALSE, IF hostTracksViews THEN 1 ELSE NoCallback, 1,
                          FALSE, "unknown")
  /\ listeners' = NoListeners
  /\ doubleClickTimeoutRef' = Null
  /\ playerPaused' = TRUE
  /\ viewTrackedCalls' = 0
  /\ playedWhileSupplied' = FALSE
  /\ UNCHANGED <<orphanTimers, fsVars>>

\* unmount: the effect cleanups remove the listeners; no cleanup clears the
\* double-tap timer, which stays pending; the state of the instance is gone
UnmountPlayer ==
  /\ doubleClickTimeoutRef = "timer" => orphanTimers < MaxOrphans
  /\ mounted' = FALSE
  /\ effectsMounted' = FALSE
  /\ isPlaying' = FALSE
  /\ hasTrackedView' = FALSE
  /\ isMobile' = FALSE
  /\ networkConnection' = "unknown"
  /\ isFullscreen' = FALSE
  /\ onViewTracked' = NoCallback
  /\ onDurationChange' = 1
  /\ rendered' = InitialSnapshot
  /\ listeners' = NoListeners
  /\ doubleClickTimeoutRef' = Null
  /\ orphanTimers' = IF doubleClickTimeoutRef = "timer" THEN orphanTimers + 1 ELSE orphanTimers
  /\ playerPaused' = TRUE
  /\ viewTrackedCalls' = 0
  /\ playedWhileSupplied' = FALSE
  /\ fullscreenElement' = IF fullscreenElement = "container" THEN "none" ELSE fullscreenElement
  /\ fullscreenChangeQueued' = (fullscreenChangeQueued \/ fullscreenElement = "container")
  /\ UNCHANGED <<pendingRequests, pendingExits>>

\* the instance stays; the modal rendered again and passes a new
\* onDurationChange arrow function, and MuxPlayer renders with it (React
\* flushes the effects of the render before first)
UpdatePlayerProps ==
  /\ ~EffectPending
  /\ onDurationChange' = 3 - onDurationChange
  /\ rendered' = Snapshot(hasTrackedView, onViewTracked, 3 - onDurationChange,
                          isMobile, networkConnection)
  /\ UNCHANGED <<mounted, effectsMounted, stateVars, listeners, onViewTracked,
                 gestureVars, fsVars, playerPaused, viewTrackedCalls, playedWhileSupplied>>

NoPlayer ==
  UNCHANGED <<playerVars, propVars, gestureVars, fsVars, playerPaused,
              viewTrackedCalls, playedWhileSupplied>>

\* the host changes the modal's isOpen / content props and React commits the
\* modal's render
SetModalProps ==
  \E open \in BOOLEAN, c \in Contents \cup {Null} :
    /\ <<open, c>> # <<isOpen, content>>
    /\ isOpen' = open
    /\ content' = c
    /\ view' = ModalRender(open, c)
    /\ shownDuration' = IF ModalRender(open, c) = "nothing" THEN Null ELSE Shown(duration)
    \* a new instance, or the same one given another playback-id, starts
    \* loading its media anew; an instance that is gone has no duration
    /\ playerDuration' = NaN
    /\ LET player == (ModalRender(open, c) = "player")
       IN  CASE player /\ ~mounted  -> MountPlayer
             [] player /\ mounted   -> UpdatePlayerProps
             [] ~player /\ mounted  -> UnmountPlayer
             [] OTHER               -> NoPlayer
    /\ UNCHANGED <<fullscreenSupported, connectionApi, connectionValue, userAgentMobile,
                   narrowViewport, hostTracksViews, gestureHist, playCount, urlVars,
                   duration, durationHist>>

\* React runs the pending effects of the last render.  The first run also
\* calls checkMobile and detectNetwork and adds the resize, connection and
\* fullscreenchange listeners; every run subscribes the player listeners anew.
RunEffects ==
  /\ EffectPending
  /\ effectsMounted' = TRUE
  /\ listeners' = Subscribe(rendered)
  /\ isMobile' = IF effectsMounted THEN isMobile
                 ELSE checkMobile(userAgentMobile, narrowViewport)
  /\ networkConnection' =
       IF effectsMounted THEN networkConnection
       ELSE detectNetwork(connectionApi, connectionValue, networkConnection)
  /\ UNCHANGED <<modalVars, mounted, isPlaying, hasTrackedView, isFullscreen, rendered,
                 propVars, gestureVars, fsVars, envVars, gestureHist, viewHist, urlVars,
                 durationVars>>

\* React renders MuxPlayer again after a state or prop change; effects of
\* the render before are flushed first
Render ==
  /\ mounted
  /\ ~EffectPending
  /\ rendered # Snapshot(hasTrackedView, onViewTracked, onDurationChange,
                         isMobile, networkConnection)
  /\ rendered' = Snapshot(hasTrackedView, onViewTracked, onDurationChange,
                          isMobile, networkConnection)
  /\ UNCHANGED <<modalVars, mounted, effectsMounted, stateVars, listeners,
                 propVars, gestureVars, fsVars, envVars, gestureHist, viewHist, urlVars,
                 durationVars>>

----------------------------------------------------------------------------
\* Double-tap detector and fullscreen toggle

\* containerRef.current.requestFullscreen?.().catch(...)
requestFullscreen ==
  /\ requestAttempts' = requestAttempts + 1
  /\ pendingRequests' = IF fullscreenSupported THEN pendingRequests + 1 ELSE pendingRequests

\* document.exitFullscreen?.().catch(...)
exitFullscreen ==
  /\ exitAttempts' = exitAttempts + 1
  /\ pendingExits' = IF fullscreenSupported THEN pendingExits + 1 ELSE pendingExits

handlePlayerDoubleClickKeepsTimer ==
  IF doubleClickTimeoutRef = "timer"
  THEN /\ doubleClickTimeoutRef' = "timer"
       /\ doubleTaps' = doubleTaps + 1
       /\ IF fullscreenElement = "none"
          THEN requestFullscreen /\ UNCHANGED <<exitAttempts, pendingExits>>
          ELSE exitFullscreen /\ UNCHANGED <<requestAttempts, pendingRequests>>
  ELSE /\ doubleClickTimeoutRef' = "timer"
       /\ UNCHANGED <<doubleTaps, requestAttempts, exitAttempts,
                      pendingRequests, pendingExits>>

handlePlayerDoubleClickByTrackedState ==
  IF doubleClickTimeoutRef = "timer"
  THEN /\ doubleClickTimeoutRef' = Null
       /\ doubleTaps' = doubleTaps + 1
       /\ IF ~isFullscreen
          THEN requestFullscreen /\ UNCHANGED <<exitAttempts, pendingExits>>
          ELSE exitFullscreen /\ UNCHANGED <<requestAttempts, pendingRequests>>
  ELSE /\ doubleClickTimeoutRef' = "timer"
       /\ UNCHANGED <<doubleTaps, requestAttempts, exitAttempts,
                      pendingRequests, pendingExits>>

\* handlePlayerDoubleClick: the second tap pairs with the pending one and
\* toggles fullscreen (the doubleTap signal); a first tap arms the timer
handlePlayerDoubleClick ==
  IF doubleClickTimeoutRef = "timer"
  THEN /\ doubleClickTimeoutRef' = Null
       /\ doubleTaps' = doubleTaps + 1
       /\ IF fullscreenElement = "none"
          THEN requestFullscreen /\ UNCHANGED <<exitAttempts, pendingExits>>
          ELSE exitFullscreen /\ UNCHANGED <<requestAttempts, pendingRequests>>
  ELSE /\ doubleClickTimeoutRef' = "timer"
       /\ UNCHANGED <<doubleTaps, requestAttempts, exitAttempts,
                      pendingRequests, pendingExits>>

\* the container's gesture event (its onDoubleClick binding) reaches the handler
Tap ==
  /\ mounted
  /\ tapCount < MaxTaps
  /\ tapCount' = tapCount + 1
  /\ handlePlayerDoubleClick
  /\ UNCHANGED <<modalVars, playerVars, propVars, orphanTimers, fullscreenElement,
                 fullscreenChangeQueued, envVars, timerExpiries, warnings,
                 unhandledRejections, viewHist, urlVars,
                 durationVars>>

TimeoutCallbackKeepsHandle ==
  doubleClickTimeoutRef' = doubleClickTimeoutRef

\* the callback given to setTimeout
TimeoutCallback ==
  doubleClickTimeoutRef' = Null

\* 300 ms passed since the tap that armed the timer
TimerFires ==
  /\ doubleClickTimeoutRef = "timer"
  /\ TimeoutCallback
  /\ timerExpiries' = timerExpiries + 1
  /\ UNCHANGED <<modalVars, playerVars, propVars, orphanTimers, fsVars, envVars,
                 tapCount, doubleTaps, requestAttempts, exitAttempts, warnings,
                 unhandledRejections, viewHist, urlVars,
                 durationVars>>

\* the timer of an unmounted instance fires: its callback writes the ref of
\* that instance
OrphanTimerFires ==
  /\ orphanTimers > 0
  /\ orphanTimers' = orphanTimers - 1
  /\ timerExpiries' = timerExpiries + 1
  /\ UNCHANGED <<modalVars, playerVars, propVars, doubleClickTimeoutRef, fsVars, envVars,
                 tapCount, doubleTaps, requestAttempts, exitAttempts, warnings,
                 unhandledRejections, viewHist, urlVars,
                 durationVars>>

\* handleFullscreenChange
handleFullscreenChange ==
  isFullscreen' = (fullscreenElement # "none")

\* the .catch handler of either call: console.warn and nothing else
CatchRetrying ==
  /\ warnings' = warnings + 1
  /\ requestAttempts' = requestAttempts + 1
  /\ UNCHANGED <<unhandledRejections, exitAttempts, isFullscreen, doubleClickTimeoutRef>>

CatchHandler ==
  /\ warnings' = warnings + 1
  /\ UNCHANGED <<unhandledRejections, requestAttempts, exitAttempts, isFullscreen,
                 doubleClickTimeoutRef>>

\* a rejected promise runs its catch handler; without one the rejection is
\* unhandled
PromiseRejected(caught) ==
  IF caught THEN CatchHandler
  ELSE /\ unhandledRejections' = unhandledRejections + 1
       /\ UNCHANGED <<warnings, requestAttempts, exitAttempts, isFullscreen,
                      doubleClickTimeoutRef>>

\* both calls of handlePlayerDoubleClick end in .catch(...)
RequestHasCatch == TRUE
ExitHasCatch == TRUE

\* the browser grants the request: the container is the fullscreen element
RequestResolves ==
  /\ pendingRequests > 0
  /\ mounted
  /\ pendingRequests' = pendingRequests - 1
  /\ fullscreenElement' = "container"
  /\ fullscreenChangeQueued' = TRUE
  /\ UNCHANGED <<modalVars, playerVars, propVars, gestureVars, pendingExits, envVars,
                 gestureHist, viewHist, urlVars,
                 durationVars>>

\* the browser refuses the request (permission denied, element gone)
RequestRejects ==
  /\ pendingRequests > 0
  /\ pendingRequests' = pendingRequests - 1
  /\ PromiseRejected(RequestHasCatch)
  /\ UNCHANGED <<modalVars, mounted, effectsMounted, isPlaying, hasTrackedView, isMobile,
                 networkConnection, rendered, listeners, propVars, orphanTimers,
                 fullscreenElement, pendingExits, fullscreenChangeQueued, envVars,
                 tapCount, doubleTaps, timerExpiries, viewHist, urlVars,
                 durationVars>>

ExitResolves ==
  /\ pendingExits > 0
  /\ pendingExits' = pendingExits - 1
  /\ fullscreenElement' = "none"
  /\ fullscreenChangeQueued' = TRUE
  /\ UNCHANGED <<modalVars, playerVars, propVars, gestureVars, pendingRequests, envVars,
                 gestureHist, viewHist, urlVars,
                 durationVars>>

ExitRejects ==
  /\ pendingExits > 0
  /\ pendingExits' = pendingExits - 1
  /\ PromiseRejected(ExitHasCatch)
  /\ UNCHANGED <<modalVars, mounted, effectsMounted, isPlaying, hasTrackedView, isMobile,
                 networkConnection, rendered, listeners, propVars, orphanTimers,
                 fullscreenElement, pendingRequests, fullscreenChangeQueued, envVars,
                 tapCount, doubleTaps, timerExpiries, viewHist, urlVars,
                 durationVars>>

\* fullscreen changes by other means: the Escape key, the player's own
\* fullscreen control, another element
ExternalFullscreenChange ==
  /\ \E e \in {"none", "other"} :
       /\ e # fullscreenElement
       /\ fullscreenElement' = e
  /\ fullscreenChangeQueued' = TRUE
  /\ UNCHANGED <<modalVars, playerVars, propVars, gestureVars, pendingRequests,
                 pendingExits, envVars, gestureHist, viewHist, urlVars,
                 durationVars>>

\* the document's fullscreenchange event is dispatched
FullscreenChangeEvent ==
  /\ fullscreenChangeQueued
  /\ fullscreenChangeQueued' = FALSE
  /\ IF effectsMounted THEN handleFullscreenChange ELSE UNCHANGED isFullscreen
  /\ UNCHANGED <<modalVars, mounted, effectsMounted, isPlaying, hasTrackedView, isMobile,
                 networkConnection, rendered, listeners, propVars, gestureVars,
                 fullscreenElement, pendingRequests, pendingExits, envVars,
                 gestureHist, viewHist, urlVars,
                 durationVars>>

----------------------------------------------------------------------------
\* View tracking: the play and pause listeners of the player element

\* handlePlay, as subscribed: hasTrackedView and onViewTracked are those of
\* the render the listener was made in
handlePlay ==
  /\ isPlaying' = TRUE
  /\ IF ~listeners.hasTrackedView /\ listeners.onViewTracked # NoCallback
     THEN /\ hasTrackedView' = TRUE
          /\ viewTrackedCalls' = viewTrackedCalls + 1
     ELSE UNCHANGED <<hasTrackedView, viewTrackedCalls>>

\* handlePause
handlePause ==
  isPlaying' = FALSE

\* the player element starts playing and emits play
Play ==
  /\ mounted
  /\ playerPaused
  /\ playCount < MaxPlays
  /\ playerPaused' = FALSE
  /\ playCount' = playCount + 1
  /\ playedWhileSupplied' = (playedWhileSupplied \/ onViewTracked # NoCallback)
  /\ IF listeners.subscribed THEN handlePlay
     ELSE UNCHANGED <<isPlaying, hasTrackedView, viewTrackedCalls>>
  /\ UNCHANGED <<modalVars, mounted, effectsMounted, isMobile, networkConnection,
                 isFullscreen, rendered, listeners, propVars, gestureVars, fsVars,
                 fullscreenSupported, connectionApi, connectionValue, userAgentMobile,
                 narrowViewport, hostTracksViews, gestureHist, urlVars,
                 durationVars>>

\* the player element pauses and emits pause
Pause ==
  /\ mounted
  /\ ~playerPaused
  /\ playerPaused' = TRUE
  /\ IF listeners.subscribed THEN handlePause ELSE UNCHANGED isPlaying
  /\ UNCHANGED <<modalVars, mounted, effectsMounted, hasTrackedView, isMobile,
                 networkConnection, isFullscreen, rendered, listeners, propVars,
                 gestureVars, fsVars, fullscreenSupported, connectionApi, connectionValue,
                 userAgentMobile, narrowViewport, hostTracksViews, gestureHist,
                 viewHist, urlVars,
                 durationVars>>

\* the host renders again and passes another onViewTracked (or none), and
\* MuxPlayer renders with it
HostSetsOnViewTracked ==
  /\ mounted
  /\ ~EffectPending
  /\ \E cb \in 0..MaxCallbacks :
       /\ cb # onViewTracked
       /\ onViewTracked' = cb
       /\ rendered' = Snapshot(hasTrackedView, cb, onDurationChange,
                               isMobile, networkConnection)
  /\ UNCHANGED <<modalVars, mounted, effectsMounted, stateVars, listeners,
                 onDurationChange, gestureVars, fsVars, envVars, gestureHist,
                 viewHist, urlVars,
                 durationVars>>

----------------------------------------------------------------------------
\* Duration events of the player and the duration shown by the modal

\* onDurationChange={(seconds) => setDuration(seconds)}, called by a listener
NotifyDuration(seconds) ==
  /\ durationCalls' = durationCalls + 1
  /\ lastNotified' = seconds
  /\ duration' = seconds
  /\ durationItem' = content

\* handleDurationChange without the test of player.duration
handleDurationChangeUnguarded(playerNow) ==
  IF listeners.onDurationChange # NoCallback
  THEN NotifyDuration(playerNow)
  ELSE UNCHANGED <<durationCalls, lastNotified, duration, durationItem>>

\* handleDurationChange, as subscribed
handleDurationChange(playerNow) ==
  IF listeners.onDurationChange # NoCallback /\ Truthy(playerNow)
  THEN NotifyDuration(playerNow)
  ELSE UNCHANGED <<durationCalls, lastNotified, duration, durationItem>>

\* handleLoadedmetadata, as subscribed
handleLoadedmetadata(playerNow) ==
  IF listeners.onDurationChange # NoCallback /\ Truthy(playerNow)
  THEN NotifyDuration(playerNow)
  ELSE UNCHANGED <<durationCalls, lastNotified, duration, durationItem>>

\* the duration of the player element changes and it emits durationchange
DurationChange ==
  /\ mounted
  /\ durationEvents < MaxDurationEvents
  /\ durationEvents' = durationEvents + 1
  /\ \E d \in PlayerDurations(content) \ {playerDuration} :
       /\ playerDuration' = d
       /\ IF listeners.subscribed THEN handleDurationChange(d)
          ELSE UNCHANGED <<durationCalls, lastNotified, duration, durationItem>>
  /\ UNCHANGED <<modalVars, playerVars, propVars, gestureVars, fsVars, envVars,
                 gestureHist, viewHist, urlVars, shownDuration>>

\* the player element has the metadata of its media and emits loadedmetadata
LoadedMetadata ==
  /\ mounted
  /\ playerDuration # NaN
  /\ durationEvents < MaxDurationEvents
  /\ durationEvents' = durationEvents + 1
  /\ IF listeners.subscribed THEN handleLoadedmetadata(playerDuration)
     ELSE UNCHANGED <<durationCalls, lastNotified, duration, durationItem>>
  /\ UNCHANGED <<modalVars, playerVars, propVars, gestureVars, fsVars, envVars,
                 gestureHist, viewHist, urlVars, shownDuration, playerDuration>>

\* React renders the open modal again after setDuration changed its state:
\* the duration line shows the new state, and MuxPlayer is rendered with a
\* new onDurationChange arrow function
RenderModal ==
  /\ view # "nothing"
  /\ shownDuration # Shown(duration)
  /\ shownDuration' = Shown(duration)
  /\ IF mounted THEN UpdatePlayerProps ELSE NoPlayer
  /\ UNCHANGED <<modalVars, fullscreenSupported, connectionApi, connectionValue,
                 userAgentMobile, narrowViewport, hostTracksViews, gestureHist,
                 playCount, urlVars, duration, playerDuration, durationHist>>

\* the connection object fires change: detectNetwork runs if it was subscribed
ConnectionChange ==
  /\ connectionApi # "none"
  /\ \E v \in ConnectionValues(connectionApi) :
       /\ v # connectionValue
       /\ connectionValue' = v
       /\ networkConnection' =
            IF effectsMounted THEN detectNetwork(connectionApi, v, networkConnection)
            ELSE networkConnection
  /\ UNCHANGED <<modalVars, mounted, effectsMounted, isPlaying, hasTrackedView, isMobile,
                 isFullscreen, rendered, listeners, propVars, gestureVars, fsVars,
                 fullscreenSupported, connectionApi, userAgentMobile, narrowViewport,
                 playerPaused, hostTracksViews, gestureHist, viewHist, urlVars,
                 durationVars>>

\* the window is resized across 768 pixels: checkMobile runs if subscribed
Resize ==
  /\ narrowViewport' = ~narrowViewport
  /\ isMobile' = IF effectsMounted THEN checkMobile(userAgentMobile, ~narrowViewport)
                 ELSE isMobile
  /\ UNCHANGED <<modalVars, mounted, effectsMounted, isPlaying, hasTrackedView,
                 networkConnection, isFullscreen, rendered, listeners, propVars,
                 gestureVars, fsVars, fullscreenSupported, connectionApi, connectionValue,
                 userAgentMobile, playerPaused, hostTracksViews, gestureHist, viewHist,
                 urlVars,
                 durationVars>>

----------------------------------------------------------------------------
\* Playback-identifier extraction applied to one content_url

\* const playbackId = getPlaybackId()
ExtractPlaybackId ==
  /\ playbackId = NotExtracted
  /\ playbackId' = getPlaybackId(contentUrl)
  /\ UNCHANGED <<modalVars, playerVars, propVars, gestureVars, fsVars, envVars,
                 gestureHist, viewHist, contentUrl, durationVars>>

----------------------------------------------------------------------------
\* Initial states and specifications

\* the modal is constructed closed, no player instance exists
Constructed ==
  /\ isOpen = FALSE /\ content = Null /\ view = "nothing"
  /\ mounted = FALSE /\ effectsMounted = FALSE
  /\ isPlaying = FALSE /\ hasTrackedView = FALSE /\ isMobile = FALSE
  /\ networkConnection = "unknown" /\ isFullscreen = FALSE
  /\ rendered = InitialSnapshot /\ listeners = NoListeners
  /\ onViewTracked = NoCallback /\ onDurationChange = 1
  /\ doubleClickTimeoutRef = Null /\ orphanTimers = 0
  /\ fullscreenElement = "none" /\ pendingRequests = 0 /\ pendingExits = 0
  /\ fullscreenChangeQueued = FALSE
  /\ playerPaused = TRUE
  /\ tapCount = 0 /\ doubleTaps = 0 /\ timerExpiries = 0
  /\ requestAttempts = 0 /\ exitAttempts = 0
  /\ warnings = 0 /\ unhandledRejections = 0
  /\ playCount = 0 /\ viewTrackedCalls = 0 /\ playedWhileSupplied = FALSE
  /\ duration = Null /\ shownDuration = Null /\ playerDuration = NaN
  /\ durationEvents = 0 /\ durationCalls = 0
  /\ lastNotified = Null /\ durationItem = Null

\* gestures and fullscreen, in a browser with or without the Fullscreen API
Init ==
  /\ Constructed
  /\ fullscreenSupported \in BOOLEAN
  /\ userAgentMobile \in BOOLEAN
  /\ narrowViewport = FALSE
  /\ connectionApi = "none"
  /\ connectionValue = "undefined"
  /\ hostTracksViews = FALSE
  /\ contentUrl = Empty
  /\ playbackId = NotExtracted

Next ==
  \/ SetModalProps
  \/ RunEffects
  \/ Render
  \/ Tap
  \/ TimerFires
  \/ OrphanTimerFires
  \/ RequestResolves
  \/ RequestRejects
  \/ ExitResolves
  \/ ExitRejects
  \/ ExternalFullscreenChange
  \/ FullscreenChangeEvent

Spec == Init /\ [][Next]_vars

\* view tracking, under a host that may pass onViewTracked
InitView ==
  /\ Constructed
  /\ fullscreenSupported = TRUE
  /\ userAgentMobile = FALSE
  /\ narrowViewport = FALSE
  /\ connectionApi = "none"
  /\ connectionValue = "undefined"
  /\ hostTracksViews \in BOOLEAN
  /\ contentUrl = Empty
  /\ playbackId = NotExtracted

NextView ==
  \/ SetModalProps
  \/ RunEffects
  \/ Render
  \/ HostSetsOnViewTracked
  \/ Play
  \/ Pause

SpecView == InitView /\ [][NextView]_vars

\* playback configuration, in every kind of browser and viewport
InitConfig ==
  /\ Constructed
  /\ fullscreenSupported = TRUE
  /\ userAgentMobile \in BOOLEAN
  /\ narrowViewport \in BOOLEAN
  /\ connectionApi \in {"none", "connection", "mozConnection"}
  /\ connectionValue \in ConnectionValues(connectionApi)
  /\ hostTracksViews = FALSE
  /\ contentUrl = Empty
  /\ playbackId = NotExtracted

NextConfig ==
  \/ SetModalProps
  \/ RunEffects
  \/ Render
  \/ ConnectionChange
  \/ Resize

SpecConfig == InitConfig /\ [][NextConfig]_vars

\* duration events and the duration line of the modal
InitDuration ==
  /\ Constructed
  /\ fullscreenSupported = TRUE
  /\ userAgentMobile = FALSE
  /\ narrowViewport = FALSE
  /\ connectionApi = "none"
  /\ connectionValue = "undefined"
  /\ hostTracksViews = FALSE
  /\ contentUrl = Empty
  /\ playbackId = NotExtracted

NextDuration ==
  \/ SetModalProps
  \/ RunEffects
  \/ DurationChange
  \/ LoadedMetadata
  \/ RenderModal

SpecDuration == InitDuration /\ [][NextDuration]_vars

\* identifier extraction over every content_url up to MaxUrlLen tokens
InitPlaybackId ==
  /\ Constructed
  /\ fullscreenSupported = TRUE
  /\ userAgentMobile = FALSE
  /\ narrowViewport = FALSE
  /\ connectionApi = "none"
  /\ connectionValue = "undefined"
  /\ hostTracksViews = FALSE
  /\ \E n \in 0..MaxUrlLen : contentUrl \in [1..n -> UrlTokens]
  /\ playbackId = NotExtracted

NextPlaybackId == ExtractPlaybackId

SpecPlaybackId == InitPlaybackId /\ [][NextPlaybackId]_vars

----------------------------------------------------------------------------
\* Properties of the double-tap detector and the fullscreen toggle (Spec)

PendingTimers ==
  (IF doubleClickTimeoutRef = "timer" THEN 1 ELSE 0) + orphanTimers

TapStep == tapCount' = tapCount + 1

TimerReleasedOnUnmount ==
  orphanTimers = 0

FailureOnlyLogged ==
  /\ [](unhandledRejections = 0)
  /\ [][warnings' # warnings =>
          /\ warnings' = warnings + 1
          /\ pendingRequests' + pendingExits' = pendingRequests + pendingExits - 1
          /\ UNCHANGED <<isFullscreen, doubleClickTimeoutRef, orphanTimers,
                         requestAttempts, exitAttempts, fullscreenElement,
                         fullscreenChangeQueued, mounted>>]_vars
  /\ [][(doubleTaps' = doubleTaps + 1) =>
          /\ doubleClickTimeoutRef' = Null
          /\ ~fullscreenSupported =>
               UNCHANGED <<pendingRequests, pendingExits, warnings, isFullscreen,
                           fullscreenElement>>]_vars

\* a request was refused and logged, and a later tap armed the detector
FailureThenTap ==
  /\ warnings >= 1 /\ mounted /\ doubleClickTimeoutRef = "timer" /\ tapCount = 3
  /\ ~isFullscreen

\* C10: with content whose identifier cannot be extracted the open modal
\* shows the cannot-play state and no player; the player is mounted exactly
\* when the modal is open with content that has an identifier; the
\* cannot-play state stays until the host changes the props.
PlayableContents == {"hls", "bare"}

CannotPlayNeverMounts ==
  /\ [](mounted <=> (isOpen /\ content \in PlayableContents))
  /\ [](mounted <=> view = "player")
  /\ []((isOpen /\ content \in Contents \ PlayableContents) <=> view = "cannotPlay")
  /\ [][(view = "cannotPlay" /\ UNCHANGED <<isOpen, content>>) =>
          (view' = "cannotPlay" /\ ~mounted')]_vars

\* the modal is open on content served by another host
CannotPlayShown ==
  isOpen /\ content = "foreign" /\ view = "cannotPlay" /\ ~mounted

----------------------------------------------------------------------------
\* Properties of view tracking (SpecView)

\* C1: within one playback session onViewTracked is invoked at most once,
\* whatever play and pause events, renders and callback changes occur (and
\* once a play event has occurred while it was supplied, exactly once).
ViewTrackedAtMostOnce ==
  viewTrackedCalls <= 1

\* the second clause of C1 taken alone
ViewTrackedWhenPlayed ==
  playedWhileSupplied => viewTrackedCalls >= 1

----------------------------------------------------------------------------
\* Properties of the playback configuration (SpecConfig)

ResolutionTable(tier, mobile) ==
  CASE tier = "slow-2g" -> "480p"
    [] tier = "2g"      -> "480p"
    [] tier = "3g"      -> "720p"
    [] tier = "4g"      -> "1080p"
    [] tier = "unknown" -> IF mobile THEN "720p" ELSE "1080p"

\* C7: for every tier and device the max-resolution attribute given to the
\* player is the one of the resolution table: 480p for slow-2g and 2g, 720p
\* for 3g, 1080p for 4g, and for unknown 720p on mobile, 1080p on desktop.
MaxResolutionFollowsTable ==
  (mounted /\ rendered.networkConnection \in NetworkTiers) =>
     rendered.maxResolution =
       ResolutionTable(rendered.networkConnection, rendered.isMobile)

\* a mobile player rendered on a 2g connection
RenderedMobile2g ==
  /\ mounted /\ rendered.isMobile /\ rendered.networkConnection = "2g"
  /\ rendered.maxResolution = "480p"

\* C8: the preload attribute depends on the device class alone: metadata on
\* mobile and auto on desktop, for every tier; none is never chosen.
PreloadFollowsDevice ==
  mounted =>
     /\ rendered.preload = (IF rendered.isMobile THEN "metadata" ELSE "auto")
     /\ rendered.preload # "none"

\* a mobile player rendered on a fast connection
RenderedMobile4g ==
  /\ mounted /\ rendered.isMobile /\ rendered.networkConnection = "4g"
  /\ rendered.preload = "metadata"

----------------------------------------------------------------------------
\* Properties of playback-identifier extraction (SpecPlaybackId)

\* what follows the last slash of the string
RECURSIVE TrailingSegment(_)
TrailingSegment(s) ==
  IF s = Empty \/ s[Len(s)] \in {"/", "S"} THEN Empty
  ELSE Append(TrailingSegment(SubSeq(s, 1, Len(s) - 1)), s[Len(s)])

\* C9 as stated: a URL matching the streaming-host pattern gives its
\* trailing path segment; otherwise a string without :// gives itself;
\* otherwise the result is empty.
ExtractionThreeWayRule ==
  playbackId # NotExtracted =>
    playbackId =
      IF MatchStarts(contentUrl) # {} THEN TrailingSegment(contentUrl)
      ELSE IF ~Includes(contentUrl, SchemeDelimiter) THEN contentUrl
      ELSE Empty

IsAlphaNumRun(s) == s # Empty /\ \A k \in 1..Len(s) : s[k] \in AlphaNum

\* the host name, a slash and a letter or digit stand at position i
HostSlashIdAt(s, i) ==
  /\ i + 4 <= Len(s)
  /\ s[i] = "s" /\ s[i + 1] = "." /\ s[i + 2] = "m" /\ s[i + 3] = "/"
  /\ s[i + 4] \in AlphaNum

HasHostName(s) ==
  \E i \in 1..Len(s) :
    i + 2 <= Len(s) /\ s[i] = "s" /\ s[i + 1] = "." /\ s[i + 2] = "m"

\* C9 amended: a string containing the streaming host name gives the run of
\* letters and digits that directly follows the first "host/" that has one,
\* and nothing after that run; it gives the empty identifier when no
\* "host/" is followed by a letter or digit; a string without the host name
\* gives itself if it has no ://, and the empty identifier otherwise.
ExtractionRule ==
  playbackId # NotExtracted =>
    IF HasHostName(contentUrl)
    THEN \/ /\ playbackId = Empty
            /\ \A i \in 1..Len(contentUrl) : ~HostSlashIdAt(contentUrl, i)
         \/ \E i \in 1..Len(contentUrl), n \in 1..Len(contentUrl) :
              /\ i + 3 + n <= Len(contentUrl)
              /\ HostSlashIdAt(contentUrl, i)
              /\ \A j \in 1..(i - 1) : ~HostSlashIdAt(contentUrl, j)
              /\ playbackId = SubSeq(contentUrl, i + 4, i + 3 + n)
              /\ IsAlphaNumRun(playbackId)
              /\ (i + 4 + n <= Len(contentUrl) => contentUrl[i + 4 + n] \notin AlphaNum)
    ELSE IF \A k \in 1..Len(contentUrl) : contentUrl[k] # "S"
         THEN playbackId = contentUrl
         ELSE playbackId = Empty

\* the identifier of a stream URL, cut before the character that follows it
ExtractedBeforeExtension ==
  /\ contentUrl = <<"m", "S", "s", ".", "m", "/", "m", ".">>
  /\ playbackId = <<"m">>

----------------------------------------------------------------------------
\* Properties of the stored network tier (SpecConfig)

\* detectNetwork has stored what the connection object reports now
NetworkDetected == mounted /\ effectsMounted

\* C11: once the player is mounted and after any connection change events,
\* the stored network tier is one of the five enumerated tiers, and it is
\* unknown whenever there is no connection object or the object reports no
\* value.
NetworkTierEnumerated ==
  /\ networkConnection \in NetworkTiers
  /\ NetworkDetected /\ (connectionApi = "none" \/ connectionValue = "undefined")
       => networkConnection = "unknown"

\* the part of C11 about the absent signal, taken alone
AbsentSignalIsUnknown ==
  NetworkDetected /\ (connectionApi = "none" \/ connectionValue = "undefined")
    => networkConnection = "unknown"

----------------------------------------------------------------------------
\* Properties of the duration notifications (SpecDuration)

\* the player element emitted durationchange or loadedmetadata
DurationEventStep == durationEvents' = durationEvents + 1

\* C12 as stated: while the player is mounted and onDurationChange is
\* supplied, every durationchange and loadedmetadata event gives one
\* onDurationChange notification carrying the player's current duration.
EveryDurationEventNotified ==
  [][DurationEventStep /\ mounted /\ onDurationChange # NoCallback
       => /\ durationCalls' = durationCalls + 1
          /\ lastNotified' = playerDuration']_vars

\* C12 amended: while the player's listeners are attached and onDurationChange
\* is supplied, a durationchange or loadedmetadata event emitted while the
\* player's duration is a number other than zero gives exactly one
\* notification carrying that duration; an event emitted while the duration
\* is NaN or zero gives none; and nothing else gives a notification.
DurationEventNotifiedWhenKnown ==
  /\ [][DurationEventStep /\ listeners.subscribed /\ listeners.onDurationChange # NoCallback
          => IF Truthy(playerDuration')
             THEN /\ durationCalls' = durationCalls + 1
                  /\ lastNotified' = playerDuration'
                  /\ duration' = playerDuration'
             ELSE UNCHANGED <<durationCalls, lastNotified, duration>>]_vars
  /\ [][durationCalls' # durationCalls => DurationEventStep]_vars

\* with the listeners attached, one event reported the length of the media
\* and a later change of the duration to zero was not reported
ZeroDurationNotReported ==
  /\ listeners.subscribed
  /\ durationEvents = 2 /\ durationCalls = 1
  /\ lastNotified = MediaDuration(content)
  /\ playerDuration = Zero

----------------------------------------------------------------------------
\* Properties of the duration line of the modal (SpecDuration)

\* C13: whenever the open modal displays a duration, that duration was
\* reported by the player for the content item now shown; after a close and
\* reopen, or a switch of the content prop, no duration reported for an
\* item shown before is on display.
ShownDurationOfCurrentItem ==
  shownDuration # Null => view # "nothing" /\ durationItem = content

====
